---- MODULE Spec2Model ----
(***************************************************************************)
(* Offline-first synchronisation engine of the Vehicle Maintenance Manager *)
(* (js/google_sheets.js revisions 1.0.0, 1.0.3 and 1.0.4, app.js,          *)
(* vehicle_manager.js and the Apps Script backend code.gs).                *)
(*                                                                         *)
(* Two specifications:                                                     *)
(*   MergeSpec  mergeData applied to bounded local / remote sequences      *)
(*   Spec       the client (API client, sync engine, vehicle mutations),   *)
(*              its triggers and the backend's vehicle row store           *)
(***************************************************************************)
EXTENDS Integers, Sequences, FiniteSets, TLC

VARIABLES
    rev,            \* revision of google_sheets.js in use: "v100" | "v103" | "v104"
    webAppUrl,      \* GOOGLE_CONFIG.webAppUrl is a non-empty string
    isOnline,       \* let isOnline (connectivity flag)
    navOnline,      \* navigator.onLine: whether the browser has a connection
    now,            \* Date.now(); TickMs pass between two operations being invoked
    vehicles,       \* Local Store entry 'vehicles' (localStorage vm_app_vehicles)
    mirror,         \* window.APP.state.vehicles (in-memory mirror)
    lastSync,       \* Local Store entry 'lastSync'; 0 stands for null (both falsy in JS)
    sheet,          \* Remote Row Store: data rows of the Vehicles sheet
    nextId,         \* number of identifiers generateId has handed out (client)
    tasks,          \* the async function activations of the client, one per slot
    result,         \* what the operation that settled in the last step handed its caller
    ops,            \* number of triggers handled so far
    deleted,        \* ids removed from the Local Store by deleteVehicle (history)
    createdOffline, \* ids addVehicle generated while the flag was false (history)
    listening,      \* the 'online'/'offline' listeners of initializeGoogleSheets:
                    \* "none" | "load" (registered at page load) | "late" (by configure)
    mIn,            \* MergeSpec: the arguments of mergeData
    mOut,           \* MergeSpec: mergeData(L, R, k)
    mOut2,          \* MergeSpec: mergeData(mergeData(L, R, k), R, k)
    mPc,            \* MergeSpec: how many times mergeData has been applied
    rIn,            \* RouteSpec: the request and the sheets it arrives at
    rOut,           \* RouteSpec: the response object and the sheets afterwards
    rPc             \* RouteSpec: 0 | 1 (routeRequest returned) | 2 (handleRequest)

sysVars == <<rev, webAppUrl, isOnline, navOnline, now, vehicles, mirror, lastSync,
             sheet, nextId, tasks, result, ops, deleted, createdOffline,
             listening>>
mVars == <<mIn, mOut, mOut2, mPc>>
rVars == <<rIn, rOut, rPc>>
vars == <<rev, webAppUrl, isOnline, navOnline, now, vehicles, mirror, lastSync,
          sheet, nextId, tasks, result, ops, deleted, createdOffline,
          listening, mIn, mOut, mOut2, mPc, rIn, rOut, rPc>>

----------------------------------------------------------------------------
(* Bounds *)

MaxLen == 2        \* MergeSpec: longest local / remote sequence
MaxCreates == 1    \* Spec: number of vehicles the client creates
MaxOps == 2        \* Spec: number of triggers handled (user actions, events, timers,
                   \* writes of another device, responses lost, timeouts elapsed)

----------------------------------------------------------------------------
(* Records are functions from field names to values; a field a record does *)
(* not state is absent from its DOMAIN (JS: undefined).                    *)

Undefined == "undefined"

\* item[idField]
KeyOf(item, idField) == IF idField \in DOMAIN item THEN item[idField] ELSE Undefined

\* mutant: { ...b, ...a }, the left operand wins
SpreadLeftWins(a, b) ==
    [f \in (DOMAIN a) \cup (DOMAIN b) |-> IF f \in DOMAIN a THEN a[f] ELSE b[f]]

\* mutant: the right operand replaces the left one
SpreadDropsLocal(a, b) == b

\* { ...a, ...b }
Spread(a, b) ==
    [f \in (DOMAIN a) \cup (DOMAIN b) |-> IF f \in DOMAIN b THEN b[f] ELSE a[f]]

\* mutant: the id set is built from a field no record has
IdSetWrongField(data, idField) == {KeyOf(data[i], "id") : i \in 1..Len(data)}

\* new Set(data.map(item => item[idField]))
IdSet(data, idField) == {KeyOf(data[i], idField) : i \in 1..Len(data)}

\* merged.findIndex(item => item[idField] === key); 0 stands for -1
FindIndex(data, idField, key) ==
    IF \E i \in 1..Len(data) : KeyOf(data[i], idField) = key
    THEN CHOOSE i \in 1..Len(data) :
           /\ KeyOf(data[i], idField) = key
           /\ \A j \in 1..(i - 1) : KeyOf(data[j], idField) # key
    ELSE 0

\* mutant: every remote record is pushed
MergeItemAlwaysPush(merged, localIds, remoteItem, idField) ==
    Append(merged, remoteItem)

\* mutant: a remote record whose id is unknown locally is dropped
MergeItemNoPush(merged, localIds, remoteItem, idField) ==
    IF KeyOf(remoteItem, idField) \notin localIds
    THEN merged
    ELSE LET index == FindIndex(merged, idField, KeyOf(remoteItem, idField))
         IN  IF index # 0
             THEN [merged EXCEPT ![index] = Spread(merged[index], remoteItem)]
             ELSE merged

\* the body of remoteData.forEach in mergeData
MergeItem(merged, localIds, remoteItem, idField) ==
    IF KeyOf(remoteItem, idField) \notin localIds
    THEN Append(merged, remoteItem)
    ELSE LET index == FindIndex(merged, idField, KeyOf(remoteItem, idField))
         IN  IF index # 0
             THEN [merged EXCEPT ![index] = Spread(merged[index], remoteItem)]
             ELSE merged

RECURSIVE MergeLoop(_, _, _, _, _)
MergeLoop(merged, localIds, remoteData, idField, i) ==
    IF i > Len(remoteData) THEN merged
    ELSE MergeLoop(MergeItem(merged, localIds, remoteData[i], idField),
                   localIds, remoteData, idField, i + 1)

\* mutant: remote records are put in front of the local ones
mergeDataRemoteFirst(localData, remoteData, idField) ==
    LET m == MergeLoop(localData, IdSet(localData, idField), remoteData, idField, 1)
        n == Len(localData)
    IN  SubSeq(m, n + 1, Len(m)) \o SubSeq(m, 1, n)

\* function mergeData(localData, remoteData, idField)
mergeData(localData, remoteData, idField) ==
    MergeLoop(localData, IdSet(localData, idField), remoteData, idField, 1)

----------------------------------------------------------------------------
(* The client and the backend.  Vehicle mutations are modelled in full; the *)
(* maintenance, receipts and reminders sheets stay empty, so their pulls    *)
(* are requests that return no rows or fail.                                *)

Revs == {"v100", "v103", "v104"}
Tasks == {1, 2}

retryAttempts == 3      \* GOOGLE_CONFIG.retryAttempts
retryDelay == 1000      \* GOOGLE_CONFIG.retryDelay (ms)
StaleMs == 300000       \* handleVisibilityChange: 5 minutes
TickMs == 400000        \* the step by which the clock advances

\* identifiers handed out by generateId (client)
IdNames == <<"c1", "c2", "c3">>
\* identifiers handed out by Utilities.getUuid (backend), one per request that
\* appends a row: ServerIds[c][a] answers attempt a of the POST of record c
ServerIds == [c1 |-> <<"s11", "s12", "s13">>,
              c2 |-> <<"s21", "s22", "s23">>,
              c3 |-> <<"s31", "s32", "s33">>]
SeedId == "s0"

\* await syncVehicles; syncMaintenanceRecords; syncReceipts; syncReminders
SyncOrder == <<"vehicles", "maintenance", "receipts", "reminders">>

NoArg == [vehicle_id |-> Undefined]

\* an activation slot no async function occupies
Idle == [op |-> "none", coll |-> 0, phase |-> "none", attempt |-> 0,
         requests |-> 0, since |-> 0, arg |-> NoArg, waits |-> <<>>,
         overdue |-> FALSE, arrays |-> 0]

\* makeApiRequest entered: the first fetch of the retry loop is issued
Call(op, coll, since, arg) ==
    [op |-> op, coll |-> coll, phase |-> "fetch", attempt |-> 1,
     requests |-> 1, since |-> since, arg |-> arg, waits |-> <<>>,
     overdue |-> FALSE, arrays |-> 0]

\* what an operation hands to its caller when it settles
NoResult == [op |-> "none", arg |-> NoArg, online |-> FALSE, requests |-> 0,
             rejected |-> FALSE, outcome |-> "none", waits |-> <<>>,
             arrays |-> 0]

Settled(op, arg, online, requests, rejected, outcome) ==
    [op |-> op, arg |-> arg, online |-> online, requests |-> requests,
     rejected |-> rejected, outcome |-> outcome, waits |-> <<>>, arrays |-> 0]

Free(t) == tasks[t].op = "none"
FreeSlots == {t \in Tasks : Free(t)}
Slot == CHOOSE t \in FreeSlots : \A u \in FreeSlots : t <= u

HasId(data, id) == \E i \in 1..Len(data) : data[i]["vehicle_id"] = id

\* { vehicle_id, ...vehicleData, created_date, last_updated }
NewVehicle(id, make, t) ==
    [vehicle_id |-> id, make |-> make, created_date |-> t, last_updated |-> t]

(* ------------------------------ backend ------------------------------ *)

\* the data sheets of the spreadsheet (SHEET_NAMES)
Collections == {"vehicles", "maintenance", "receipts", "reminders"}

\* the column that holds the id of a row
IdField(coll) ==
    CASE coll = "vehicles" -> "vehicle_id"
      [] coll = "maintenance" -> "log_id"
      [] coll = "receipts" -> "receipt_id"
      [] coll = "reminders" -> "reminder_id"

\* JS null: the data of a request without a body
Null == [null |-> TRUE]

\* a find() that matched no row
UndefinedBody == [undefined |-> TRUE]

\* data.field || ''
OrEmpty(data, field) == IF field \in DOMAIN data THEN data[field] ELSE ""

\* { data: body, status: status }; db is the content of the sheets afterwards
Resp(status, body, db) ==
    [status |-> status, body |-> body, db |-> db, thrown |-> FALSE]

\* throw new Error(msg)
Throw(msg, db) ==
    [status |-> 0, body |-> [error |-> msg], db |-> db, thrown |-> TRUE]

ErrorEnvelope(msg, status, db) == Resp(status, [error |-> msg], db)

\* mutant: the filter lets every row through
getAllVehiclesNoFilter(rows, since) == rows

\* getAllVehicles(sheet, since): since = 0 stands for null
getAllVehicles(rows, since) ==
    SelectSeq(rows, LAMBDA v : since = 0 \/ v["last_updated"] >= since)

\* getAllMaintenance / getAllReceipts / getAllReminders(sheet, since)
getAllRecords(rows, since) ==
    SelectSeq(rows, LAMBDA v : since = 0 \/ v["created_date"] >= since)

\* rows.find(row => row[idField] === id)
getById(rows, idField, id) ==
    LET i == FindIndex(rows, idField, id)
    IN  IF i = 0 THEN UndefinedBody ELSE rows[i]

\* addVehicle(sheet, data): the backend assigns its own id and timestamps
addVehicleRow(rows, data, id, t) ==
    Append(rows, NewVehicle(id, OrEmpty(data, "make"), t))

\* addMaintenance / addReceipt / addReminder(sheet, data)
addRecordRow(rows, idField, data, id, t) ==
    Append(rows, [f \in {idField, "vehicle_id", "created_date"} |->
                     IF f = idField THEN id
                     ELSE IF f = "created_date" THEN t
                     ELSE OrEmpty(data, "vehicle_id")])

\* updateVehicle(sheet, id, data) for a row that exists
updateVehicleRow(rows, id, data, t) ==
    LET i == FindIndex(rows, "vehicle_id", id)
    IN  [rows EXCEPT ![i] =
            [f \in DOMAIN rows[i] |->
                IF f = "last_updated" THEN t
                ELSE IF f \in DOMAIN data /\ f # "vehicle_id" THEN data[f]
                ELSE rows[i][f]]]

\* deleteVehicle(sheet, id) for a row that exists: sheet.deleteRow
deleteVehicleRow(rows, id) ==
    LET i == FindIndex(rows, "vehicle_id", id)
    IN  SubSeq(rows, 1, i - 1) \o SubSeq(rows, i + 1, Len(rows))

\* mutant: the loop ends without the throw
NotFoundSilent(db) == Resp(200, [success |-> TRUE], db)

\* updateVehicle / deleteVehicle: no row matched, throw new Error('Vehicle not found')
NotFound(db) == Throw("Vehicle not found", db)

\* mutant: the id of a PUT or DELETE is not tested
MissingNoIdCheck(method, id, data) ==
    (method \in {"POST", "PUT"} /\ data = Null)

\* the 400 branches of handleVehicles / handleMaintenance / handleReceipts:
\* POST: !data; PUT: !id || !data; DELETE: !id
Missing(method, id, data) ==
    \/ (method = "POST" /\ data = Null)
    \/ (method = "PUT" /\ (id = "" \/ data = Null))
    \/ (method = "DELETE" /\ id = "")

MissingMessage(method) ==
    CASE method = "POST" -> "No data provided"
      [] method = "PUT" -> "ID and data required"
      [] OTHER -> "ID required"

\* handleVehicles(method, id, params, data)
handleVehicles(method, id, params, data, db, freshId, t) ==
    LET rows == db["vehicles"]
    IN  IF method \notin {"GET", "POST", "PUT", "DELETE"}
        THEN ErrorEnvelope("Method not allowed", 405, db)
        ELSE IF Missing(method, id, data)
        THEN ErrorEnvelope(MissingMessage(method), 400, db)
        ELSE CASE method = "GET" ->
                    IF id # ""
                    THEN Resp(200, getById(getAllVehicles(rows, 0), "vehicle_id", id), db)
                    ELSE Resp(200, [data |-> getAllVehicles(rows, params.since)], db)
              [] method = "POST" ->
                    Resp(201, [vehicle_id |-> freshId],
                         [db EXCEPT !["vehicles"] = addVehicleRow(rows, data, freshId, t)])
              [] method = "PUT" ->
                    IF HasId(rows, id)
                    THEN Resp(200, [vehicle_id |-> id],
                              [db EXCEPT !["vehicles"] = updateVehicleRow(rows, id, data, t)])
                    ELSE NotFound(db)
              [] method = "DELETE" ->
                    IF HasId(rows, id)
                    THEN Resp(200, [success |-> TRUE],
                              [db EXCEPT !["vehicles"] = deleteVehicleRow(rows, id)])
                    ELSE NotFound(db)

\* updateMaintenance / deleteMaintenance / updateReceipt / deleteReceipt: the
\* message of the error they throw
NotImplemented(verb, coll) ==
    verb \o (IF coll = "maintenance" THEN " maintenance" ELSE " receipt")
         \o " not implemented yet"

\* handleMaintenance / handleReceipts(method, id, params, data): update and
\* delete are not implemented and throw
handleRecords(coll, method, id, params, data, db, freshId, t) ==
    LET rows == db[coll]
    IN  IF method \notin {"GET", "POST", "PUT", "DELETE"}
        THEN ErrorEnvelope("Method not allowed", 405, db)
        ELSE IF Missing(method, id, data)
        THEN ErrorEnvelope(MissingMessage(method), 400, db)
        ELSE CASE method = "GET" ->
                    IF id # ""
                    THEN Resp(200, getById(getAllRecords(rows, 0), IdField(coll), id), db)
                    ELSE Resp(200, [data |-> getAllRecords(rows, params.since)], db)
              [] method = "POST" ->
                    Resp(201, [f \in {IdField(coll)} |-> freshId],
                         [db EXCEPT ![coll] =
                             addRecordRow(rows, IdField(coll), data, freshId, t)])
              [] method = "PUT" -> Throw(NotImplemented("Update", coll), db)
              [] method = "DELETE" -> Throw(NotImplemented("Delete", coll), db)

\* handleReminders(method, id, params, data)
handleReminders(method, id, params, data, db, freshId, t) ==
    LET rows == db["reminders"]
    IN  CASE method = "GET" ->
                Resp(200, [data |-> getAllRecords(rows, params.since)], db)
          [] method = "POST" ->
                IF data = Null
                THEN ErrorEnvelope("No data provided", 400, db)
                ELSE Resp(201, [reminder_id |-> freshId],
                          [db EXCEPT !["reminders"] =
                              addRecordRow(rows, "reminder_id", data, freshId, t)])
          [] OTHER -> ErrorEnvelope("Method not allowed", 405, db)

\* handleUpload(method, data): the file goes to Drive, no sheet is touched;
\* db.drive tells whether Drive takes the file or uploadToGoogleDrive throws
handleUpload(method, data, db) ==
    IF method # "POST" THEN ErrorEnvelope("Method not allowed", 405, db)
    ELSE IF data = Null \/ OrEmpty(data, "filename") = "" \/ OrEmpty(data, "data") = ""
    THEN ErrorEnvelope("Filename and data required", 400, db)
    ELSE IF db["drive"] THEN Resp(200, [url |-> "file"], db)
    ELSE ErrorEnvelope("Upload failed", 500, db)

\* mutant: the verb is not tested
handleSyncAnyVerb(method, params, db) ==
    Resp(200, [c \in Collections |->
                  IF c = "vehicles" THEN getAllVehicles(db[c], params.since)
                  ELSE getAllRecords(db[c], params.since)], db)

\* handleSync(method, params)
handleSync(method, params, db) ==
    IF method # "GET" THEN ErrorEnvelope("Method not allowed", 405, db)
    ELSE Resp(200, [c \in Collections |->
                       IF c = "vehicles" THEN getAllVehicles(db[c], params.since)
                       ELSE getAllRecords(db[c], params.since)], db)

\* mutant: an unknown resource is answered like an empty list
InvalidEndpointOk(db) == Resp(200, [data |-> <<>>], db)

\* default: return { data: { error: 'Invalid endpoint' }, status: 404 }
InvalidEndpoint(db) == ErrorEnvelope("Invalid endpoint", 404, db)

\* error.toString() of an Error
ErrorToString(msg) == "Error: " \o msg

\* path.split('/').filter(part => part.length > 0): pathParts[n] || ''
Segment(path, n) == IF Len(path) >= n THEN path[n] ELSE ""

\* routeRequest(method, path, params, data): dispatch on the first segment; an
\* exception of a handler becomes { error: error.toString() } with status 500
routeRequest(method, path, params, data, db, freshId, t) ==
    LET resource == Segment(path, 1)
        id == Segment(path, 2)
        r == CASE resource = "vehicles" ->
                    handleVehicles(method, id, params, data, db, freshId, t)
               [] resource \in {"maintenance", "receipts"} ->
                    handleRecords(resource, method, id, params, data, db, freshId, t)
               [] resource = "reminders" ->
                    handleReminders(method, id, params, data, db, freshId, t)
               [] resource = "upload" -> handleUpload(method, data, db)
               [] resource = "sync" -> handleSync(method, params, db)
               [] resource = "install" ->
                    Resp(200, [success |-> TRUE, message |-> "Installation completed"], db)
               [] OTHER -> InvalidEndpoint(db)
    IN  IF r.thrown THEN ErrorEnvelope(ErrorToString(r.body["error"]), 500, r.db)
        ELSE r

\* a request that carries no body, and one whose body is not JSON
NoBody == [raw |-> "none"]
BadJson == [raw |-> "bad"]

\* handleRequest(e, method): the body of a POST or PUT is parsed, the request
\* routed, and createResponse(response.data, response.status) is returned
handleRequest(method, path, params, body, db, freshId, t) ==
    IF method \in {"POST", "PUT"} /\ body \in {NoBody, BadJson}
    THEN ErrorEnvelope("Invalid JSON data", 400, db)
    ELSE routeRequest(method, path, params,
                      IF method \in {"POST", "PUT"} THEN body ELSE Null,
                      db, freshId, t)

\* no request has arrived / no response has been produced
NoRequest == [none |-> TRUE]
NoResponse == [none |-> TRUE]

(* ------------------------------ client ------------------------------- *)

\* the path the request of activation k carries: revision 1.0.0 appends the
\* endpoint to the URL (e.pathInfo); 1.0.3 and 1.0.4 send ?action=..., which
\* leaves e.pathInfo empty
ResourceOf(k) ==
    IF rev # "v100" THEN ""
    ELSE IF k.op = "sync" THEN SyncOrder[k.coll] ELSE "vehicles"

\* the verb of the request (1.0.3 always fetches with GET)
MethodOf(k) ==
    CASE k.op = "sync" -> "GET"
      [] k.op = "add" -> IF rev = "v103" THEN "GET" ELSE "POST"
      [] k.op = "update" -> "PUT"
      [] k.op = "delete" -> "DELETE"

\* the URL path of the request: endpoint, and '/' + vehicleId for PUT and DELETE
PathOf(k) ==
    IF ResourceOf(k) = "" THEN <<>>
    ELSE IF k.op \in {"update", "delete"}
         THEN <<ResourceOf(k), k.arg["vehicle_id"]>>
         ELSE <<ResourceOf(k)>>

\* the sheets as the backend sees them: only the Vehicles sheet has rows
SheetsOf(rows) ==
    [c \in Collections \cup {"drive"} |->
        IF c = "vehicles" THEN rows ELSE IF c = "drive" THEN TRUE ELSE <<>>]

\* what the backend answers to the request activation k has in flight
ResponseTo(k) ==
    LET r == handleRequest(MethodOf(k), PathOf(k), [since |-> k.since],
                           IF k.op \in {"add", "update"} THEN k.arg ELSE NoBody,
                           SheetsOf(sheet),
                           IF k.op = "add" THEN ServerIds[k.arg["vehicle_id"]][k.attempt]
                           ELSE Undefined,
                           now)
    IN  [status |-> r.status, body |-> r.body, rows |-> r.db["vehicles"]]

\* if (result.error) throw (1.0.0); if (result.status === 'error') throw
\* (1.0.3, 1.0.4: the backend's envelopes carry no status field)
ClientSeesError(resp) ==
    rev = "v100" /\ "error" \in DOMAIN resp.body

\* mutant: one attempt fewer
CanRetryOffByOne(attempt) == attempt < retryAttempts - 1

\* for (attempt = 1; attempt <= retryAttempts; attempt++) { ...
\*   if (attempt < retryAttempts) await backoff }
CanRetry(attempt) == attempt < retryAttempts

\* mutant: the connectivity flag is not consulted
ShouldCallBackendIgnoringFlag == webAppUrl

\* if (isOnline && GOOGLE_CONFIG.webAppUrl)
ShouldCallBackend == isOnline /\ webAppUrl

\* vehicles.push(vehicle); saveToStorage('vehicles', vehicles); state.vehicles = vehicles
PushLocal(vehicle) ==
    /\ vehicles' = Append(vehicles, vehicle)
    /\ mirror' = Append(vehicles, vehicle)

\* page load: DOMContentLoaded restores the saved URL; the Local Store is
\* empty, or (1.0.0) holds the sheet's row from an earlier session whose sync
\* pass either completed (lastSync written) or failed after the vehicles pull
Init ==
    /\ rev \in Revs
    /\ webAppUrl \in (IF rev = "v100" THEN BOOLEAN ELSE {TRUE})
    /\ navOnline \in BOOLEAN
    /\ isOnline = navOnline
    /\ sheet = <<NewVehicle(SeedId, "A", TickMs)>>
    /\ \/ /\ now = TickMs
          /\ vehicles = <<>> /\ mirror = <<>>
          /\ lastSync = 0
       \/ /\ rev = "v100" /\ webAppUrl
          /\ now = 2 * TickMs
          /\ vehicles = sheet /\ mirror = sheet
          /\ lastSync \in {0, 2 * TickMs}
    /\ nextId = 0
    /\ tasks = [t \in Tasks |-> Idle]
    /\ result = NoResult
    /\ ops = 0
    /\ deleted = {}
    /\ createdOffline = {}
    /\ listening = IF webAppUrl THEN "load" ELSE "none"
    /\ mIn = [L |-> <<>>, R |-> <<>>, k |-> "vehicle_id"]
    /\ mOut = <<>> /\ mOut2 = <<>> /\ mPc = 0
    /\ rIn = NoRequest /\ rOut = NoResponse /\ rPc = 0

\* configureWebAppUrl(url) with a URL, once after a load without one:
\* initializeGoogleSheets registers the listeners
Configure ==
    /\ rev = "v100" /\ ~webAppUrl /\ listening = "none"
    /\ ops + 1 <= MaxOps
    /\ ops' = ops + 1
    /\ webAppUrl' = TRUE
    /\ listening' = "late"
    /\ result' = NoResult
    /\ UNCHANGED <<rev, isOnline, navOnline, now, vehicles, mirror,
                   lastSync, sheet, nextId, tasks, deleted, createdOffline>>
    /\ UNCHANGED <<mVars, rVars>>

\* configureWebAppUrl('') : the URL is cleared, initializeGoogleSheets
\* returns false and the listeners already registered stay
Unconfigure ==
    /\ rev = "v100" /\ webAppUrl
    /\ ops + 1 <= MaxOps
    /\ ops' = ops + 1
    /\ webAppUrl' = FALSE
    /\ result' = NoResult
    /\ UNCHANGED <<rev, isOnline, navOnline, now, vehicles, mirror,
                   lastSync, sheet, nextId, tasks, deleted, createdOffline,
                   listening>>
    /\ UNCHANGED <<mVars, rVars>>

\* mutant: the configuration is not consulted
CanSyncIgnoringUrl(online) == online

\* syncData: if (!isOnline || !GOOGLE_CONFIG.webAppUrl) return false
CanSync(online) == online /\ webAppUrl

\* the first request of a pass: the vehicles pull with the stored lastSync
\* (1.0.0), the connectivity test (1.0.3, 1.0.4)
SyncCall ==
    Call("sync", IF rev = "v100" THEN 1 ELSE 0,
         IF rev = "v100" THEN lastSync ELSE 0, NoArg)

\* syncData() up to its first await, with the connectivity flag as given:
\* it returns false when offline or not configured, else it issues the first
\* request (1.0.0: the vehicles pull; 1.0.3, 1.0.4: the connectivity test)
syncDataEntry(online) ==
    /\ ops + 1 <= MaxOps
    /\ ops' = ops + 1
    /\ now' = now + TickMs
    /\ IF ~CanSync(online)
       THEN /\ UNCHANGED tasks
            /\ result' = Settled("sync", NoArg, online, 0, FALSE, "false")
       ELSE /\ FreeSlots # {}
            /\ tasks' = [tasks EXCEPT ![Slot] = SyncCall]
            /\ result' = NoResult

\* a direct call of syncData (loadInitialData, the timeout after a save)
DirectSync ==
    /\ syncDataEntry(isOnline)
    /\ UNCHANGED <<rev, webAppUrl, isOnline, navOnline, vehicles,
                   mirror, lastSync, sheet, nextId, deleted, createdOffline, listening>>
    /\ UNCHANGED <<mVars, rVars>>

\* setupDataSync: the 10-minute interval fires while the document is visible
TimerSync ==
    /\ syncDataEntry(isOnline)
    /\ UNCHANGED <<rev, webAppUrl, isOnline, navOnline, vehicles,
                   mirror, lastSync, sheet, nextId, deleted, createdOffline, listening>>
    /\ UNCHANGED <<mVars, rVars>>

\* the 'online' event.  app.js's handleOnlineStatus calls syncData; the
\* listener of initializeGoogleSheets, when registered, sets the flag and
\* calls syncData.  Listeners run in registration order: the order of the two
\* scripts' DOMContentLoaded handlers is not fixed by the sources, a listener
\* registered by configureWebAppUrl runs last.
OnlineEvent ==
    /\ ~navOnline
    /\ navOnline' = TRUE
    /\ IF listening = "none"
       THEN /\ isOnline' = isOnline
            /\ syncDataEntry(isOnline)
       ELSE \E sheetsFirst \in (IF listening = "load" THEN BOOLEAN ELSE {FALSE}) :
            LET seenByApp == IF sheetsFirst THEN TRUE ELSE isOnline
                both == CanSync(TRUE) /\ CanSync(seenByApp)
            IN  /\ ops + 1 <= MaxOps
                /\ ops' = ops + 1
                /\ now' = now + TickMs
                /\ isOnline' = TRUE
                /\ IF both
                   THEN /\ FreeSlots = Tasks
                        /\ tasks' = [t \in Tasks |-> SyncCall]
                        /\ result' = NoResult
                   ELSE IF CanSync(TRUE)
                   THEN /\ FreeSlots # {}
                        /\ tasks' = [tasks EXCEPT ![Slot] = SyncCall]
                        /\ result' = Settled("sync", NoArg, seenByApp, 0, FALSE, "false")
                   ELSE /\ UNCHANGED tasks
                        /\ result' = Settled("sync", NoArg, TRUE, 0, FALSE, "false")
    /\ UNCHANGED <<rev, webAppUrl, vehicles, mirror, lastSync,
                   sheet, nextId, deleted, createdOffline, listening>>
    /\ UNCHANGED <<mVars, rVars>>

\* the 'offline' event: the listener of initializeGoogleSheets clears the flag
OfflineEvent ==
    /\ navOnline
    /\ ops + 1 <= MaxOps
    /\ ops' = ops + 1
    /\ navOnline' = FALSE
    /\ isOnline' = IF listening # "none" THEN FALSE ELSE isOnline
    /\ result' = NoResult
    /\ UNCHANGED <<rev, webAppUrl, now, vehicles, mirror, lastSync,
                   sheet, nextId, tasks, deleted, createdOffline, listening>>
    /\ UNCHANGED <<mVars, rVars>>

\* mutant: every return to the page counts as stale
IsStaleAlways == TRUE

\* if (!lastSync || (now - lastSync) > 300000)
IsStale == lastSync = 0 \/ (now - lastSync) > StaleMs

\* 'visibilitychange' with the document visible again: handleVisibilityChange
VisibilityChange ==
    /\ IF IsStale
       THEN syncDataEntry(isOnline)
       ELSE UNCHANGED <<tasks, ops, now>> /\ result' = NoResult
    /\ UNCHANGED <<rev, webAppUrl, isOnline, navOnline, vehicles, mirror,
                   lastSync, sheet, nextId, deleted, createdOffline, listening>>
    /\ UNCHANGED <<mVars, rVars>>

(* --------------------------- vehicle mutations ------------------------ *)

\* addVehicle(vehicleData).  1.0.0 and 1.0.3 save locally first and then
\* POST; 1.0.4 POSTs first and saves locally when the request has settled.
AddVehicle ==
    /\ ops + 1 <= MaxOps
    /\ ops' = ops + 1
    /\ now' = now + TickMs
    /\ nextId < MaxCreates
    /\ LET vehicle == NewVehicle(IdNames[nextId + 1], "A", now)
       IN  /\ nextId' = nextId + 1
           /\ createdOffline' = IF isOnline THEN createdOffline
                                ELSE createdOffline \cup {vehicle["vehicle_id"]}
           /\ IF ShouldCallBackend
              THEN /\ FreeSlots # {}
                   /\ tasks' = [tasks EXCEPT ![Slot] = Call("add", 0, 0, vehicle)]
                   /\ result' = NoResult
                   /\ IF rev = "v104"
                      THEN UNCHANGED <<vehicles, mirror>>
                      ELSE PushLocal(vehicle)
              ELSE /\ UNCHANGED tasks
                   /\ result' = Settled("add", vehicle, isOnline, 0, FALSE, "returned")
                   /\ PushLocal(vehicle)
    /\ UNCHANGED <<rev, webAppUrl, isOnline, navOnline, lastSync,
                   sheet, deleted, listening>>
    /\ UNCHANGED <<mVars, rVars>>

\* vehicles[index] = { ...vehicles[index], ...updatedVehicle } when the id is found
UpdateLocal(id, updatedVehicle) ==
    LET index == FindIndex(vehicles, "vehicle_id", id)
        next == IF index # 0
                THEN [vehicles EXCEPT ![index] = Spread(vehicles[index], updatedVehicle)]
                ELSE vehicles
    IN  /\ vehicles' = next
        /\ mirror' = IF index # 0 THEN next ELSE mirror

\* updateVehicle(vehicleId, vehicleData) of 1.0.0; with 1.0.3 and 1.0.4
\* vehicle_manager.js updates the Local Store only.  The form's data state
\* make and color; the Vehicles sheet has no color column
UpdateVehicle(id) ==
    /\ ops + 1 <= MaxOps
    /\ ops' = ops + 1
    /\ now' = now + TickMs
    /\ HasId(vehicles, id)
    /\ LET updatedVehicle == [vehicle_id |-> id, make |-> "B", color |-> "red",
                              last_updated |-> now]
       IN  /\ UpdateLocal(id, updatedVehicle)
           /\ IF rev = "v100" /\ ShouldCallBackend
              THEN /\ FreeSlots # {}
                   /\ tasks' = [tasks EXCEPT ![Slot] =
                                   Call("update", 0, 0, updatedVehicle)]
                   /\ result' = NoResult
              ELSE /\ UNCHANGED tasks
                   /\ result' = Settled("update", updatedVehicle, isOnline, 0,
                                        FALSE, "returned")
    /\ UNCHANGED <<rev, webAppUrl, isOnline, navOnline, lastSync,
                   sheet, nextId, deleted, createdOffline, listening>>
    /\ UNCHANGED <<mVars, rVars>>

\* vehicles.filter(v => v.vehicle_id !== vehicleId), saved and mirrored
RemoveLocal(id) ==
    /\ vehicles' = SelectSeq(vehicles, LAMBDA v : v["vehicle_id"] # id)
    /\ mirror' = SelectSeq(vehicles, LAMBDA v : v["vehicle_id"] # id)

\* deleteVehicle(vehicleId) of 1.0.0; with 1.0.3 and 1.0.4 vehicle_manager.js
\* deletes from the Local Store only (GoogleSheets.deleteVehicle is undefined)
DeleteVehicle(id) ==
    /\ ops + 1 <= MaxOps
    /\ ops' = ops + 1
    /\ now' = now + TickMs
    /\ HasId(vehicles, id)
    /\ RemoveLocal(id)
    /\ deleted' = deleted \cup {id}
    /\ IF rev = "v100" /\ ShouldCallBackend
       THEN /\ FreeSlots # {}
            /\ tasks' = [tasks EXCEPT ![Slot] =
                            Call("delete", 0, 0, [vehicle_id |-> id])]
            /\ result' = NoResult
       ELSE /\ UNCHANGED tasks
            /\ result' = Settled("delete", [vehicle_id |-> id], isOnline, 0,
                                 FALSE, "returned")
    /\ UNCHANGED <<rev, webAppUrl, isOnline, navOnline, lastSync,
                   sheet, nextId, createdOffline, listening>>
    /\ UNCHANGED <<mVars, rVars>>

(* ------------------------------ API client ---------------------------- *)

InFlight(t) == tasks[t].op # "none" /\ tasks[t].phase = "fetch"

\* mutant: the URL is not tested
ConfiguredAlways == TRUE

\* makeApiRequest: if (!GOOGLE_CONFIG.webAppUrl) throw new Error(...)
Configured == webAppUrl

\* mutant: the pass ends after its first request
PassLengthOne == IF rev = "v100" THEN 1 ELSE 1

\* the number of awaited requests after which syncData returns true: the four
\* pulls of 1.0.0; in 1.0.3 and 1.0.4 the connectivity test (0) and one pull
PassLength == IF rev = "v100" THEN Len(SyncOrder) ELSE 1

\* makeApiRequest resolved inside a sync pass: merge a vehicles pull, then
\* go on to the next request of the pass or finish it
SyncContinue(t, resp) ==
    LET k == tasks[t]
        isPull == k.coll # 0 /\ (rev # "v100" \/ SyncOrder[k.coll] = "vehicles")
        last == PassLength
        \* if (response.data && Array.isArray(response.data)): pulls of this
        \* pass so far whose response carried a row array
        arrays == IF k.coll # 0 /\ "data" \in DOMAIN resp.body
                  THEN k.arrays + 1 ELSE k.arrays
    IN  /\ IF isPull /\ "data" \in DOMAIN resp.body
           THEN /\ vehicles' = mergeData(vehicles, resp.body["data"], "vehicle_id")
                /\ mirror' = mergeData(vehicles, resp.body["data"], "vehicle_id")
           ELSE UNCHANGED <<vehicles, mirror>>
        /\ IF k.coll < last /\ Configured
           THEN /\ tasks' = [tasks EXCEPT ![t] =
                                [Call("sync", k.coll + 1, k.since, NoArg)
                                    EXCEPT !.arrays = arrays]]
                /\ result' = NoResult
                /\ UNCHANGED lastSync
           ELSE IF k.coll < last
           THEN /\ tasks' = [tasks EXCEPT ![t] = Idle]
                /\ result' = Settled("sync", NoArg, TRUE, 0, TRUE, "false")
                /\ UNCHANGED lastSync
           ELSE /\ tasks' = [tasks EXCEPT ![t] = Idle]
                /\ result' = [Settled("sync", NoArg, TRUE, k.requests, FALSE, "true")
                                 EXCEPT !.arrays = arrays]
                /\ lastSync' = now

\* makeApiRequest resolved inside a mutation
MutationContinue(t) ==
    LET k == tasks[t]
    IN  /\ tasks' = [tasks EXCEPT ![t] = Idle]
        /\ result' = Settled(k.op, k.arg, TRUE, k.requests, FALSE, "returned")
        /\ IF k.op = "add" /\ rev = "v104"
           THEN PushLocal(k.arg)
           ELSE UNCHANGED <<vehicles, mirror>>
        /\ UNCHANGED lastSync

\* makeApiRequest rejects with lastError: syncData returns false; the
\* mutations of 1.0.0 rethrow; addVehicle of 1.0.3 and 1.0.4 only warns
Rejected(t) ==
    LET k == tasks[t]
    IN  /\ tasks' = [tasks EXCEPT ![t] = Idle]
        /\ result' = [Settled(k.op, k.arg, TRUE, k.requests, TRUE,
                              IF k.op = "sync" THEN "false"
                              ELSE IF rev = "v100" THEN "threw" ELSE "returned")
                         EXCEPT !.waits = k.waits]
        /\ IF k.op = "add" /\ rev = "v104"
           THEN PushLocal(k.arg)
           ELSE UNCHANGED <<vehicles, mirror>>

\* mutant: the same wait after every failed attempt
BackoffConstant(attempt) == retryDelay

\* setTimeout(resolve, GOOGLE_CONFIG.retryDelay * attempt)
BackoffDelay(attempt) == retryDelay * attempt

\* mutant: giving up stores an empty result
AttemptFailedDropsStore(t) ==
    IF CanRetry(tasks[t].attempt)
    THEN /\ tasks' = [tasks EXCEPT ![t].attempt = @ + 1, ![t].requests = @ + 1,
                                   ![t].waits = Append(@, BackoffDelay(tasks[t].attempt)),
                                   ![t].overdue = FALSE]
         /\ result' = NoResult
         /\ UNCHANGED <<vehicles, mirror>>
    ELSE /\ tasks' = [tasks EXCEPT ![t] = Idle]
         /\ result' = Settled(tasks[t].op, tasks[t].arg, TRUE, tasks[t].requests,
                              TRUE, "false")
         /\ vehicles' = <<>> /\ mirror' = <<>>

\* the catch block of the retry loop: when attempts remain, wait
\* retryDelay * attempt (recorded in waits) and issue the next fetch;
\* otherwise give up without waiting
AttemptFailed(t) ==
    IF CanRetry(tasks[t].attempt)
    THEN /\ tasks' = [tasks EXCEPT ![t].attempt = @ + 1, ![t].requests = @ + 1,
                                   ![t].waits = Append(@, BackoffDelay(tasks[t].attempt)),
                                   ![t].overdue = FALSE]
         /\ result' = NoResult
         /\ UNCHANGED <<vehicles, mirror>>
    ELSE Rejected(t)

\* the request in flight reaches the backend and its response arrives
Respond(t) ==
    /\ InFlight(t)
    /\ navOnline
    /\ LET resp == ResponseTo(tasks[t])
       IN  /\ sheet' = resp.rows
           /\ IF ClientSeesError(resp)
              THEN AttemptFailed(t) /\ UNCHANGED lastSync
              ELSE IF tasks[t].op = "sync"
                   THEN SyncContinue(t, resp)
                   ELSE MutationContinue(t)
    /\ UNCHANGED <<ops, rev, webAppUrl, isOnline, navOnline, now, nextId, deleted, createdOffline, listening>>
    /\ UNCHANGED <<mVars, rVars>>

\* fetch throws (no connection, timeout) or the response is not ok
TransportFail(t) ==
    /\ InFlight(t)
    /\ AttemptFailed(t)
    /\ UNCHANGED <<ops, rev, webAppUrl, isOnline, navOnline, now, lastSync,
                   sheet, nextId, deleted, createdOffline, listening>>
    /\ UNCHANGED <<mVars, rVars>>

\* the request in flight reaches the backend, which handles it, but the
\* response does not reach the client (connection dropped, response not ok or
\* not JSON): fetch or response.json() throws and the catch block runs
ResponseLost(t) ==
    /\ InFlight(t)
    /\ navOnline
    /\ ops + 1 <= MaxOps
    /\ ops' = ops + 1
    /\ sheet' = ResponseTo(tasks[t]).rows
    /\ AttemptFailed(t)
    /\ UNCHANGED <<rev, webAppUrl, isOnline, navOnline, now, lastSync,
                   nextId, deleted, createdOffline, listening>>
    /\ UNCHANGED <<mVars, rVars>>

\* GOOGLE_CONFIG.timeout (30 s) passes while the fetch of activation t has
\* no response: no timer and no abort signal is attached to the fetch (the
\* timeout member of the options is not read by fetch, 1.0.3 and 1.0.4 never
\* read the setting), so the fetch stays pending
TimeoutElapses(t) ==
    /\ InFlight(t) /\ ~tasks[t].overdue
    /\ ops + 1 <= MaxOps
    /\ ops' = ops + 1
    /\ tasks' = [tasks EXCEPT ![t].overdue = TRUE]
    /\ result' = NoResult
    /\ UNCHANGED <<rev, webAppUrl, isOnline, navOnline, now, vehicles, mirror,
                   lastSync, sheet, nextId, deleted, createdOffline, listening>>
    /\ UNCHANGED <<mVars, rVars>>

\* rows another device may append to the Vehicles sheet
RemoteIds == {"r1"}

\* another device adds a vehicle: the backend's addVehicle appends a row
\* stamped with the current time
RemoteAppend(id) ==
    /\ ~HasId(sheet, id) /\ ~HasId(vehicles, id) /\ id \notin deleted
    /\ ops + 1 <= MaxOps
    /\ ops' = ops + 1
    /\ sheet' = addVehicleRow(sheet, [make |-> "R"], id, now)
    /\ now' = now + TickMs
    /\ result' = NoResult
    /\ UNCHANGED <<rev, webAppUrl, isOnline, navOnline, vehicles, mirror,
                   lastSync, nextId, tasks, deleted, createdOffline, listening>>
    /\ UNCHANGED <<mVars, rVars>>

LocalIds == {vehicles[i]["vehicle_id"] : i \in 1..Len(vehicles)}

Next ==
    \/ Configure
    \/ Unconfigure
    \/ DirectSync
    \/ TimerSync
    \/ OnlineEvent
    \/ OfflineEvent
    \/ VisibilityChange
    \/ AddVehicle
    \/ \E id \in LocalIds : UpdateVehicle(id)
    \/ \E id \in LocalIds : DeleteVehicle(id)
    \/ \E t \in Tasks : Respond(t)
    \/ \E t \in Tasks : TransportFail(t)
    \/ \E t \in Tasks : ResponseLost(t)
    \/ \E t \in Tasks : TimeoutElapses(t)
    \/ \E id \in RemoteIds : RemoteAppend(id)

Spec == Init /\ [][Next]_vars

----------------------------------------------------------------------------
(* MergeSpec: mergeData on bounded inputs *)

MergeIds == {"id1", "id2", "id3"}

\* a record stating every field, and a sparse row stating another make
MergeRecords ==
    UNION {{ [f \in {"vehicle_id", "make", "color"} |->
                 IF f = "vehicle_id" THEN id ELSE IF f = "make" THEN "x" ELSE "y"],
             [f \in {"vehicle_id", "make"} |->
                 IF f = "vehicle_id" THEN id ELSE "z"] } : id \in MergeIds}

SeqsUpTo(S, n) == UNION {[1..k -> S] : k \in 0..n}

\* the state of the client and the backend while only mergeData is exercised
SysQuiet ==
    /\ rev = "v100" /\ webAppUrl = FALSE /\ isOnline = FALSE /\ navOnline = FALSE
    /\ now = TickMs /\ vehicles = <<>> /\ mirror = <<>> /\ lastSync = 0
    /\ sheet = <<>> /\ nextId = 0 /\ tasks = [t \in Tasks |-> Idle] /\ deleted = {}
    /\ createdOffline = {} /\ listening = "none"
    /\ result = NoResult /\ ops = 0

MergeInit ==
    /\ mIn \in [L : SeqsUpTo(MergeRecords, MaxLen),
                R : SeqsUpTo(MergeRecords, MaxLen),
                k : {"vehicle_id"}]
    /\ mOut = <<>> /\ mOut2 = <<>> /\ mPc = 0
    /\ rIn = NoRequest /\ rOut = NoResponse /\ rPc = 0
    /\ SysQuiet

\* const mergedVehicles = mergeData(localVehicles, response.data, 'vehicle_id')
MergeOnce ==
    /\ mPc = 0
    /\ mOut' = mergeData(mIn.L, mIn.R, mIn.k)
    /\ mPc' = 1
    /\ UNCHANGED <<mIn, mOut2>>
    /\ UNCHANGED <<sysVars, rVars>>

\* the next pull returns the same rows and they are merged into the stored result
MergeAgain ==
    /\ mPc = 1
    /\ mOut2' = mergeData(mOut, mIn.R, mIn.k)
    /\ mPc' = 2
    /\ UNCHANGED <<mIn, mOut>>
    /\ UNCHANGED <<sysVars, rVars>>

MergeNext == MergeOnce \/ MergeAgain

MergeSpec == MergeInit /\ [][MergeNext]_vars

-----------------------------------------------------------------------------
(* RouteSpec: one request against the backend, on bounded inputs *)

\* rows a sheet holds before the request
MaxRows == 2

\* the verbs of doGet / doPost / doPut / doDelete, and one no entry point has
Verbs == {"GET", "POST", "PUT", "DELETE"}
AnyVerbs == Verbs \cup {"PATCH"}

\* the first path segments routeRequest has a case for
KnownResources ==
    {"vehicles", "maintenance", "receipts", "reminders", "upload", "sync", "install"}

RouteResources == KnownResources \cup {"bogus"}

\* ids a sheet can hold ("s1", "s2", ...) and one that no row has
RowIdList == <<"s1", "s2", "s3">>
RouteIds == {"s1", "zz"}

RoutePaths ==
    {<<>>} \cup {<<r>> : r \in RouteResources}
           \cup {<<r, id>> : r \in RouteResources, id \in RouteIds}

RouteBodies ==
    {NoBody, BadJson, Null, [make |-> "B"], [filename |-> "f", data |-> "d"]}

\* a Vehicles sheet of n rows
VehicleRows(n) == [i \in 1..n |-> NewVehicle(RowIdList[i], "A", i * TickMs)]

\* a Maintenance_Log sheet of n rows
MaintenanceRows(n) ==
    [i \in 1..n |-> [log_id |-> RowIdList[i], vehicle_id |-> RowIdList[i],
                     created_date |-> i * TickMs]]

RouteDbs ==
    {[c \in Collections \cup {"drive"} |->
         CASE c = "vehicles" -> VehicleRows(n)
           [] c = "maintenance" -> MaintenanceRows(m)
           [] c = "drive" -> d
           [] OTHER -> <<>>] : n \in 0..MaxRows, m \in 0..1, d \in BOOLEAN}

RouteInit ==
    /\ rIn \in [method : AnyVerbs, path : RoutePaths,
                params : [since : {0, 2 * TickMs}],
                body : RouteBodies, db : RouteDbs]
    /\ rOut = NoResponse /\ rPc = 0
    /\ mIn = [L |-> <<>>, R |-> <<>>, k |-> "vehicle_id"]
    /\ mOut = <<>> /\ mOut2 = <<>> /\ mPc = 0
    /\ SysQuiet

\* the id Utilities.getUuid() hands to the row the request adds
RouteFreshId == "n1"

\* routeRequest(method, path, params, data) called with parsed data
RouteCall ==
    /\ rPc = 0
    /\ rIn.body \notin {NoBody, BadJson}
    /\ rOut' = routeRequest(rIn.method, rIn.path, rIn.params, rIn.body, rIn.db,
                            RouteFreshId, now)
    /\ rPc' = 1
    /\ UNCHANGED <<rIn, sysVars, mVars>>

\* doGet / doPost / doPut / doDelete: handleRequest(e, method)
HandleCall ==
    /\ rPc = 0
    /\ rIn.method \in Verbs
    /\ rOut' = handleRequest(rIn.method, rIn.path, rIn.params, rIn.body, rIn.db,
                             RouteFreshId, now)
    /\ rPc' = 2
    /\ UNCHANGED <<rIn, sysVars, mVars>>

RouteNext == RouteCall \/ HandleCall

RouteSpec == RouteInit /\ [][RouteNext]_vars

UniqueIds(data, idField) ==
    \A i, j \in 1..Len(data) :
        KeyOf(data[i], idField) = KeyOf(data[j], idField) => i = j

\* C1 (as stated): merging the same remote rows a second time changes nothing,
\* for every L and R, duplicates of an id inside R included.
MergeIdempotentAnyInput == mPc = 2 => mOut2 = mOut

\* C1 (amended): when no id occurs twice in R, merging R into mergeData(L, R, k)
\* again yields mergeData(L, R, k), record by record and field by field.
MergeIdempotent ==
    (mPc = 2 /\ UniqueIds(mIn.R, mIn.k)) => mOut2 = mOut

\* C1 witness: a second merge ran on an overlap of L and R with unique remote ids
MergeIdempotentWitness ==
    /\ mPc = 2 /\ UniqueIds(mIn.R, mIn.k)
    /\ Len(mIn.L) = 2 /\ Len(mIn.R) = 2
    /\ IdSet(mIn.L, mIn.k) \cap IdSet(mIn.R, mIn.k) # {}
    /\ IdSet(mIn.R, mIn.k) \ IdSet(mIn.L, mIn.k) # {}
    /\ mOut # mIn.L

\* C2: for an id in both L and R (R stating the id once), the merged record at
\* the first local position of that id has the remote value of every field the
\* remote row states and the local value of every field only the local record has.
RemoteFieldWins ==
    (mPc >= 1 /\ UniqueIds(mIn.R, mIn.k)) =>
        \A i \in 1..Len(mIn.L) : \A j \in 1..Len(mIn.R) :
            ( /\ KeyOf(mIn.L[i], mIn.k) = KeyOf(mIn.R[j], mIn.k)
              /\ FindIndex(mIn.L, mIn.k, KeyOf(mIn.L[i], mIn.k)) = i )
            => /\ DOMAIN mOut[i] = (DOMAIN mIn.L[i]) \cup (DOMAIN mIn.R[j])
               /\ \A f \in DOMAIN mIn.R[j] : mOut[i][f] = mIn.R[j][f]
               /\ \A f \in (DOMAIN mIn.L[i]) \ (DOMAIN mIn.R[j]) :
                      mOut[i][f] = mIn.L[i][f]

\* C2 witness: local {id, make: x, color: y} merged with remote {id, make: z}
RemoteFieldWinsWitness ==
    /\ mPc = 1
    /\ Len(mIn.L) = 1 /\ Len(mIn.R) = 1
    /\ DOMAIN mIn.L[1] = {"vehicle_id", "make", "color"}
    /\ DOMAIN mIn.R[1] = {"vehicle_id", "make"}
    /\ mIn.L[1]["vehicle_id"] = mIn.R[1]["vehicle_id"]
    /\ mOut[1]["make"] = "z" /\ mOut[1]["color"] = "y"

\* C3: when no id of L occurs in R the merge has |L| + |R| entries.
MergeConvergence ==
    (mPc >= 1 /\ IdSet(mIn.L, mIn.k) \cap IdSet(mIn.R, mIn.k) = {})
        => Len(mOut) = Len(mIn.L) + Len(mIn.R)

\* C3 witness: two local and two remote records with disjoint ids were merged
MergeConvergenceWitness ==
    /\ mPc = 1
    /\ Len(mIn.L) = 2 /\ Len(mIn.R) = 2
    /\ IdSet(mIn.L, mIn.k) \cap IdSet(mIn.R, mIn.k) = {}
    /\ Len(mOut) = 4

\* C4: the first |L| entries of the merge are the records of L in their order,
\* those whose id is not in R unchanged; the remote-only records follow, in
\* the order of R.
LocalOnlySurvive ==
    mPc >= 1 =>
        LET remoteOnly == SelectSeq(mIn.R,
                LAMBDA r : KeyOf(r, mIn.k) \notin IdSet(mIn.L, mIn.k))
        IN  /\ Len(mOut) = Len(mIn.L) + Len(remoteOnly)
            /\ \A i \in 1..Len(mIn.L) :
                 /\ KeyOf(mOut[i], mIn.k) = KeyOf(mIn.L[i], mIn.k)
                 /\ KeyOf(mIn.L[i], mIn.k) \notin IdSet(mIn.R, mIn.k)
                        => mOut[i] = mIn.L[i]
            /\ \A i \in 1..Len(remoteOnly) : mOut[Len(mIn.L) + i] = remoteOnly[i]

\* C4 witness: a local-only record, a record in both and a remote-only record
LocalOnlySurviveWitness ==
    /\ mPc = 1
    /\ Len(mIn.L) = 2 /\ Len(mIn.R) = 2
    /\ KeyOf(mIn.L[1], mIn.k) \notin IdSet(mIn.R, mIn.k)
    /\ KeyOf(mIn.L[2], mIn.k) \in IdSet(mIn.R, mIn.k)
    /\ mOut[2] # mIn.L[2]
    /\ Len(mOut) = 3

----------------------------------------------------------------------------
(* Properties of the client and the backend, checked under Spec *)

Mutations == {"add", "update", "delete"}

\* C5: one call of makeApiRequest never has more than retryAttempts (3)
\* requests behind it, and when it rejects it has issued exactly 3.
RetryBound ==
    /\ \A t \in Tasks : tasks[t].requests <= retryAttempts
    /\ (result.rejected /\ result.requests > 0) => result.requests = retryAttempts

\* C5 witness: a call rejected after its third failed request
RetryBoundWitness ==
    /\ result.rejected
    /\ result.requests = 3
    /\ result.op \in Mutations \cup {"sync"}

\* C6 (as stated): no two sync passes are pulling the same collection at the
\* same time.
NoConcurrentSync ==
    \A t, u \in Tasks :
        ( /\ t # u
          /\ tasks[t].op = "sync" /\ tasks[u].op = "sync"
          /\ tasks[t].coll >= 1 )
        => tasks[t].coll # tasks[u].coll

\* C7 (as stated): a vehicle deleted from the Local Store whose row is still in
\* the sheet is not in the Local Store again.
NoResurrection ==
    \A id \in deleted : HasId(sheet, id) => ~HasId(vehicles, id)

\* C8: a step in which addVehicle is invoked while the connectivity flag is
\* false settles the operation at once: it returns the record with its
\* generated id, the record is in the Local Store, and no request is issued.
OptimisticCreateOffline ==
    [][ (~isOnline /\ nextId' = nextId + 1) =>
            /\ result'.op = "add" /\ result'.outcome = "returned"
            /\ result'.requests = 0
            /\ result'.arg["vehicle_id"] = IdNames[nextId + 1]
            /\ HasId(vehicles', IdNames[nextId + 1])
            /\ HasId(mirror', IdNames[nextId + 1])
            /\ tasks' = tasks /\ sheet' = sheet ]_vars

\* C8 witness: addVehicle has returned offline with the record stored
OptimisticCreateOfflineWitness ==
    /\ result.op = "add" /\ ~result.online /\ ~isOnline
    /\ result.requests = 0
    /\ HasId(vehicles, result.arg["vehicle_id"])

\* C9 (as stated): while the POST of addVehicle is in flight the new record is
\* in the Local Store (unless the user has deleted it meanwhile).
WriteBeforePost ==
    \A t \in Tasks :
        tasks[t].op = "add" =>
            \/ HasId(vehicles, tasks[t].arg["vehicle_id"])
            \/ tasks[t].arg["vehicle_id"] \in deleted

\* C10 (as stated): a mutation whose request failed after all retries returns
\* to its caller without raising, and the Local Store keeps the change.
RemoteFailureIsWarning ==
    (result.rejected /\ result.op \in Mutations) =>
        /\ result.outcome = "returned"
        /\ result.op = "add" =>
               \/ HasId(vehicles, result.arg["vehicle_id"])
               \/ result.arg["vehicle_id"] \in deleted
        /\ result.op = "delete" => ~HasId(vehicles, result.arg["vehicle_id"])

SyncTrigger == DirectSync \/ TimerSync \/ VisibilityChange \/ OnlineEvent

\* C11: a step in which syncData is called while the connectivity flag it
\* reads is false or no URL is configured returns false, starts no request and
\* leaves the Local Store, the mirror and the stored lastSync unchanged.
SyncNoOp ==
    [][ (SyncTrigger /\ ops' # ops /\ ~(isOnline' /\ webAppUrl)) =>
            /\ result'.op = "sync" /\ result'.outcome = "false"
            /\ result'.requests = 0 /\ ~result'.rejected
            /\ UNCHANGED <<vehicles, mirror, lastSync, tasks, sheet>> ]_vars

\* C11 witness: syncData returned false without a request while a vehicle is
\* stored locally
SyncNoOpWitness ==
    /\ result.op = "sync" /\ result.outcome = "false"
    /\ result.requests = 0 /\ ~result.rejected
    /\ ~(isOnline /\ webAppUrl)
    /\ vehicles # <<>>

LastColl == IF rev = "v100" THEN Len(SyncOrder) ELSE 1

FailedPullChangesNothing ==
    [][ \A t \in Tasks :
            ( /\ tasks[t].op = "sync"
              /\ \/ tasks'[t].requests = tasks[t].requests + 1
                 \/ (tasks'[t] = Idle /\ result'.rejected
                        /\ result'.requests = retryAttempts) )
            => /\ UNCHANGED <<vehicles, mirror, lastSync>>
               /\ result'.rejected => (tasks'[t] = Idle /\ result'.outcome = "false")
      ]_vars

\* C13 witness: the vehicles pull was rejected with records in the Local Store
FailedPullChangesNothingWitness ==
    /\ result.op = "sync" /\ result.rejected /\ result.requests = 3
    /\ vehicles # <<>>
    /\ \A t \in Tasks : Free(t)

\* the sheet has a row for the record the client created under id: the backend
\* stores it under an id of its own
HasRemote(id) ==
    \E i \in 1..Len(sheet) :
        \/ sheet[i]["vehicle_id"] = id
        \/ \E a \in 1..retryAttempts : sheet[i]["vehicle_id"] = ServerIds[id][a]

\* C14 (as stated, for a finite run): when a sync pass has returned true with
\* the connection back, every vehicle created while the flag was false, and
\* still in the Local Store, has a row in the sheet.
OfflineDataSyncs ==
    (result.op = "sync" /\ result.outcome = "true" /\ navOnline /\ isOnline) =>
        \A id \in createdOffline : HasId(vehicles, id) => HasRemote(id)

\* C15 (as stated, for a finite run): with no vehicles pull in flight, a row
\* another device appended that is older than lastSync, and that the pulls
\* narrowed by since = lastSync therefore no longer return, is in the Local Store.
NoRowLeftBehind ==
    ( /\ rev = "v100" /\ lastSync # 0
      /\ \A t \in Tasks : tasks[t].op = "sync" => tasks[t].coll > 1 )
    => \A i \in 1..Len(sheet) :
           ( /\ sheet[i]["vehicle_id"] \in RemoteIds
             /\ sheet[i]["last_updated"] < lastSync )
           => HasId(vehicles, sheet[i]["vehicle_id"])

\* C16: no request is started while no URL is configured, and a sync pass that
\* comes to its next request without a URL (its pending request was answered)
\* is rejected in that step, with no request issued and no retry.
ConfigFailsFast ==
    [][ \A t \in Tasks :
          /\ ( /\ tasks'[t] # tasks[t]
               /\ tasks'[t] # [tasks[t] EXCEPT !.overdue = TRUE]
               /\ tasks'[t].op # "none" /\ tasks'[t].attempt = 1 )
             => webAppUrl
          /\ ( /\ ~webAppUrl
               /\ tasks[t].op = "sync" /\ tasks[t].coll < LastColl
               /\ tasks'[t] # tasks[t]
               /\ tasks'[t] # [tasks[t] EXCEPT !.overdue = TRUE]
               /\ tasks'[t].attempt # tasks[t].attempt + 1
               /\ ~(result'.rejected /\ result'.requests = retryAttempts) )
             => /\ tasks'[t] = Idle
                /\ result'.op = "sync" /\ result'.rejected
                /\ result'.requests = 0 /\ result'.outcome = "false"
                /\ lastSync' = lastSync ]_vars

\* C16 witness: a pass was rejected at a request it could not start
ConfigFailsFastWitness ==
    /\ ~webAppUrl
    /\ result.op = "sync" /\ result.rejected /\ result.requests = 0
    /\ \A t \in Tasks : Free(t)

(* claims about the backend router, under RouteSpec *)

\* the request has been answered by routeRequest, or by handleRequest after it
\* parsed the body
Routed ==
    \/ rPc = 1
    \/ rPc = 2 /\ ~(rIn.method \in {"POST", "PUT"} /\ rIn.body \in {NoBody, BadJson})

\* the response is { error: ... }
IsErrorEnvelope(body) == DOMAIN body = {"error"}

\* C17: routeRequest answers a first path segment it has no case for (none at
\* all included) with status 404 and an error envelope, whatever the verb, the
\* query and the body are, and leaves every sheet as it was.
UnknownResource404 ==
    (rPc = 1 /\ Segment(rIn.path, 1) \notin KnownResources)
    => /\ rOut.status = 404
       /\ IsErrorEnvelope(rOut.body)
       /\ rOut.db = rIn.db

\* C17 witness: a POST with a body for an unknown resource, sheets not empty
UnknownResource404Witness ==
    /\ rPc = 1 /\ Segment(rIn.path, 1) = "bogus" /\ Len(rIn.path) = 2
    /\ rIn.method = "POST" /\ rIn.body = [make |-> "B"]
    /\ Len(rIn.db["vehicles"]) = MaxRows
    /\ rOut.status = 404

\* the verbs the handler of a resource has a case for
SupportedVerbs(resource) ==
    CASE resource \in {"vehicles", "maintenance", "receipts"} -> Verbs
      [] resource = "reminders" -> {"GET", "POST"}
      [] resource = "upload" -> {"POST"}
      [] resource = "sync" -> {"GET"}

\* C18: a request for vehicles, maintenance, receipts, reminders, upload or
\* sync whose verb the handler has no case for is answered with status 405 and
\* leaves every sheet as it was.
UnsupportedVerb405 ==
    ( /\ Routed
      /\ Segment(rIn.path, 1) \in KnownResources \ {"install"}
      /\ rIn.method \notin SupportedVerbs(Segment(rIn.path, 1)) )
    => /\ rOut.status = 405
       /\ IsErrorEnvelope(rOut.body)
       /\ rOut.db = rIn.db

\* C18 witness: doPost reached the sync endpoint with a well-formed body
UnsupportedVerb405Witness ==
    /\ rPc = 2 /\ rIn.path = <<"sync">> /\ rIn.method = "POST"
    /\ rIn.body = [make |-> "B"]
    /\ Len(rIn.db["vehicles"]) = MaxRows
    /\ rOut.status = 405

\* C19: for vehicles, maintenance and receipts, a POST or PUT without a body
\* and a PUT or DELETE without an id segment are answered with status 400 and
\* leave every sheet as it was.
MissingIdOrBody400 ==
    ( /\ rPc \in {1, 2}
      /\ Segment(rIn.path, 1) \in {"vehicles", "maintenance", "receipts"}
      /\ \/ rIn.method \in {"POST", "PUT"} /\ rIn.body \in {NoBody, Null}
         \/ rIn.method \in {"PUT", "DELETE"} /\ Segment(rIn.path, 2) = "" )
    => /\ rOut.status = 400
       /\ IsErrorEnvelope(rOut.body)
       /\ rOut.db = rIn.db

\* C19 witness: a PUT that carries a body but no id segment
MissingIdOrBody400Witness ==
    /\ rPc = 2 /\ rIn.path = <<"vehicles">> /\ rIn.method = "PUT"
    /\ rIn.body = [make |-> "B"]
    /\ Len(rIn.db["vehicles"]) = MaxRows
    /\ rOut.status = 400

\* the request is an update or a delete of the row with this id
ByKey(resource, id) ==
    /\ Routed
    /\ rIn.path = <<resource, id>>
    /\ \/ rIn.method = "PUT" /\ rIn.body # Null
       \/ rIn.method = "DELETE"

FreshField(coll) == IF coll = "vehicles" THEN "last_updated" ELSE "created_date"

\* a list request for a collection has been answered
Scanned(coll) ==
    /\ rPc \in {1, 2} /\ rIn.method = "GET" /\ rIn.path = <<coll>>

\* C21 (as stated): a scan with since returns exactly the rows whose
\* freshness timestamp is newer than since, and every row without since.
ScanStrictlyNewer ==
    \A coll \in Collections :
        Scanned(coll)
        => rOut.body["data"] =
              SelectSeq(rIn.db[coll],
                        LAMBDA row : rIn.params.since = 0
                                     \/ row[FreshField(coll)] > rIn.params.since)

\* C21 (amended): a scan with since returns exactly the rows whose freshness
\* timestamp is at or after since, in sheet order, and every row without since.
ScanSince ==
    \A coll \in Collections :
        Scanned(coll)
        => /\ rOut.status = 200
           /\ rOut.body["data"] =
                 SelectSeq(rIn.db[coll],
                           LAMBDA row : rIn.params.since = 0
                                        \/ row[FreshField(coll)] >= rIn.params.since)
           /\ rOut.db = rIn.db

\* C21 witness: a vehicles scan left out an older row and returned the row
\* stamped exactly with since
ScanSinceWitness ==
    /\ Scanned("vehicles") /\ rIn.params.since # 0
    /\ Len(rOut.body["data"]) < Len(rIn.db["vehicles"])
    /\ \E i \in 1..Len(rOut.body["data"]) :
          rOut.body["data"][i]["last_updated"] = rIn.params.since

\* the last_updated value the store holds for the record with this id
LastUpdatedOf(data, id) == data[FindIndex(data, "vehicle_id", id)]["last_updated"]

\* C22: for every vehicle id, the last_updated held for it in the Local Store
\* and the one held in the sheet never decrease from one step to the next.
LastUpdatedMonotone ==
    [][ /\ \A id \in LocalIds :
              HasId(vehicles', id)
              => LastUpdatedOf(vehicles', id) >= LastUpdatedOf(vehicles, id)
        /\ \A i \in 1..Len(sheet) :
              HasId(sheet', sheet[i]["vehicle_id"])
              => LastUpdatedOf(sheet', sheet[i]["vehicle_id"]) >= sheet[i]["last_updated"]
      ]_vars

\* C23: inside one API client call the wait after failed attempt n is
\* retryDelay * n, and a call rejected after its last attempt has waited
\* retryAttempts - 1 times, so no wait follows the last attempt.
LinearBackoff ==
    /\ \A t \in Tasks :
          InFlight(t)
          => tasks[t].waits = [n \in 1..(tasks[t].attempt - 1) |-> retryDelay * n]
    /\ (result.rejected /\ result.requests > 0)
       => result.waits = [n \in 1..(retryAttempts - 1) |-> retryDelay * n]

\* C23 witness: a call was rejected after the waits of 1000 and 2000 ms
LinearBackoffWitness ==
    /\ result.rejected /\ result.requests = retryAttempts
    /\ result.waits = <<1000, 2000>>

\* C24: a request that has had no response for the configured timeout is
\* ended and takes the failure path, so no fetch is pending beyond it.
RequestTimesOut == \A t \in Tasks : InFlight(t) => ~tasks[t].overdue

\* syncData was invoked in this step: it returned false at once, or it issued
\* the first request of a pass
SyncInvoked ==
    \/ result'.op = "sync" /\ result'.requests = 0 /\ ~result'.rejected
    \/ \E t \in Tasks : tasks[t].op = "none" /\ tasks'[t].op = "sync"

\* C25: when the document becomes visible, syncData is invoked if and only if
\* no last-sync record exists or more than 300000 ms have passed since it was
\* written; and the record is written only in the step in which a sync pass
\* ends with true, with the time of that step.
VisibilityStaleness ==
    [][ /\ ( /\ VisibilityChange
             /\ lastSync # 0 /\ now - lastSync <= 300000 )
           => /\ ~SyncInvoked
              /\ UNCHANGED <<tasks, ops, vehicles, lastSync, sheet>>
        /\ ( /\ VisibilityChange
             /\ (lastSync = 0 \/ now - lastSync > 300000) )
           => SyncInvoked
        /\ lastSync' # lastSync
           => /\ result'.op = "sync" /\ result'.outcome = "true"
              /\ lastSync' = now
      ]_vars

\* C25 witness: a pass has just ended with true and written the record, so a
\* return to the page within five minutes finds it fresh
VisibilityStalenessWitness ==
    /\ result.op = "sync" /\ result.outcome = "true"
    /\ lastSync = now
    /\ \A t \in Tasks : Free(t)

\* the identifiers under which the entity created as c can be stored: the one
\* the client generated and the ones the backend gives the rows of its POST
IdsOfEntity(c) == {c} \cup {ServerIds[c][a] : a \in 1..retryAttempts}

\* the records the Local Store holds for the entity created as c
LocalRecordsOf(c) ==
    {i \in 1..Len(vehicles) : vehicles[i]["vehicle_id"] \in IdsOfEntity(c)}

\* C26: the Local Store never holds more than one record for a created
\* entity: the record written locally and the row appended by the backend
\* carry the same identifier, so a pull merges them into one.
NoDuplicateAfterSync ==
    \A n \in 1..nextId : Cardinality(LocalRecordsOf(IdNames[n])) <= 1

\* the rows the sheet holds for the entity created as c
RemoteRowsOf(c) ==
    {i \in 1..Len(sheet) : sheet[i]["vehicle_id"] \in IdsOfEntity(c)}

\* C27: one addVehicle call leaves at most one row in the sheet, whatever
\* transport failures, lost responses, error envelopes and retries its POST
\* goes through.
AtMostOneRowPerCreate ==
    \A n \in 1..nextId : Cardinality(RemoteRowsOf(IdNames[n])) <= 1

\* the collections a sync pass pulls: four in 1.0.0, vehicles in 1.0.3 and 1.0.4
CollectionsSynced == IF rev = "v100" THEN Len(SyncOrder) ELSE 1

\* C28: the stored last-sync timestamp changes only in the step that ends a
\* sync pass with true, and only if every pull of that pass returned a row
\* array; a pass with a failed pull or a response without a row array leaves
\* it unchanged.
LastSyncOnlyAfterFullPull ==
    [][ lastSync' # lastSync
        => /\ result'.op = "sync" /\ result'.outcome = "true"
           /\ result'.arrays = CollectionsSynced ]_vars

\* the rows the pull of activation t gets from the backend in this state
PulledRows(t) ==
    LET body == ResponseTo(tasks[t]).body
    IN  IF "data" \in DOMAIN body THEN body["data"] ELSE <<>>

\* a row of rows with this id states the field
StatedIn(rows, id, f) ==
    \E j \in 1..Len(rows) : rows[j]["vehicle_id"] = id /\ f \in DOMAIN rows[j]

\* C29: when a sync pass takes a step, every record the Local Store held just
\* before it (records added or updated while the pull was in flight included)
\* is still there afterwards, with its own value in every field that no
\* pulled row of the same id states.
NoLostLocalWrite ==
    [][ \A t \in Tasks :
          ( /\ tasks[t].op = "sync" /\ InFlight(t)
            /\ tasks'[t] # tasks[t]
            /\ vehicles' # vehicles )
          => LET rows == PulledRows(t)
             IN  \A i \in 1..Len(vehicles) :
                   LET id == vehicles[i]["vehicle_id"]
                       at == FindIndex(vehicles', "vehicle_id", id)
                   IN  /\ at # 0
                       /\ \A f \in DOMAIN vehicles[i] :
                             ~StatedIn(rows, id, f)
                             => /\ f \in DOMAIN vehicles'[at]
                                /\ vehicles'[at][f] = vehicles[i][f]
      ]_vars

\* C29 witness: the record of the seed row was updated (make B, color red)
\* while a pull was in flight, and the merge of that pull has put the row's
\* make back and kept the color
NoLostLocalWriteWitness ==
    \E i \in 1..Len(vehicles) :
        /\ vehicles[i]["vehicle_id"] = SeedId
        /\ "color" \in DOMAIN vehicles[i] /\ vehicles[i]["color"] = "red"
        /\ vehicles[i]["make"] = "A"

\* the ids the records of a sequence carry
IdsIn(data) == {data[i]["vehicle_id"] : i \in 1..Len(data)}

\* C30: when no id occurs twice in L and none occurs twice in R, no id occurs
\* twice in mergeData(L, R, k), and the ids of the result are exactly those
\* of L together with those of R.
MergeKeepsIdsUnique ==
    ( /\ mPc >= 1
      /\ UniqueIds(mIn.L, mIn.k) /\ UniqueIds(mIn.R, mIn.k) )
    => /\ UniqueIds(mOut, mIn.k)
       /\ IdsIn(mOut) = IdsIn(mIn.L) \cup IdsIn(mIn.R)
       /\ Len(mOut) = Cardinality(IdsIn(mIn.L) \cup IdsIn(mIn.R))

\* C30 witness: L and R of two records each share exactly one id, and the
\* merge holds three records
MergeKeepsIdsUniqueWitness ==
    /\ mPc >= 1
    /\ UniqueIds(mIn.L, mIn.k) /\ UniqueIds(mIn.R, mIn.k)
    /\ Len(mIn.L) = 2 /\ Len(mIn.R) = 2
    /\ Cardinality(IdsIn(mIn.L) \cap IdsIn(mIn.R)) = 1
    /\ Len(mOut) = 3

====
